---- MODULE Spec2Model ----
(***************************************************************************)
(* A model of parse_transaction_text (src/parser.py): the line-oriented    *)
(* scan of a bank statement's text.  Lines are strings; the regular        *)
(* expressions, str.split, str.replace and float of the source are         *)
(* operators over the characters of those strings.  Amounts are integers   *)
(* in cents (every numeral the inputs hold has at most two decimals, so    *)
(* float, round(x, 2) and the sums are exact in cents).                    *)
(***************************************************************************)
EXTENDS Integers, Sequences, FiniteSets, TLC

(***************************************************************************)
(* Bounds of the model.                                                    *)
(***************************************************************************)
\* the longest input drawn freely from a catalogue of lines
MaxLines == 4
\* the number of invocations of parse_transaction_text in one behaviour
MaxCalls == 2

(***************************************************************************)
(* Characters and strings.                                                 *)
(***************************************************************************)
Char(s, p) == SubSeq(s, p, p)

Digit == {"0", "1", "2", "3", "4", "5", "6", "7", "8", "9"}

\* the value of one decimal digit
DigitVal(c) ==
    CASE c = "0" -> 0 [] c = "1" -> 1 [] c = "2" -> 2 [] c = "3" -> 3
      [] c = "4" -> 4 [] c = "5" -> 5 [] c = "6" -> 6 [] c = "7" -> 7
      [] c = "8" -> 8 [] c = "9" -> 9

\* s[a..b] is a (possibly empty) run of digits: \d* over the whole range
AllDigits(s, a, b) == \A p \in a..b : Char(s, p) \in Digit

\* re.search(pat, line) for a pattern without metacharacters: substring test
Contains(line, pat) ==
    \E p \in 1..(Len(line) - Len(pat) + 1) :
        SubSeq(line, p, p + Len(pat) - 1) = pat

\* str.endswith
EndsWith(s, suffix) ==
    /\ Len(s) >= Len(suffix)
    /\ SubSeq(s, Len(s) - Len(suffix) + 1, Len(s)) = suffix

\* the places of s that hold a character of the set cs, and the k-th of them
Places(s, cs) == { p \in 1..Len(s) : Char(s, p) \in cs }

Nth(ps, k) == CHOOSE p \in ps : Cardinality({ r \in ps : r <= p }) = k

\* str.split(c): the pieces between the occurrences of c, empty ones kept
SplitOn(s, c) ==
    LET ps == Places(s, {c})
        n  == Cardinality(ps)
        lo(k) == IF k = 1 THEN 1 ELSE Nth(ps, k - 1) + 1
        hi(k) == IF k = n + 1 THEN Len(s) ELSE Nth(ps, k) - 1
    IN  [k \in 1..(n + 1) |-> SubSeq(s, lo(k), hi(k))]

\* str.split(): the maximal runs of non-blank characters
Split(s) ==
    LET blank  == Places(s, {" "})
        starts == { p \in 1..Len(s) : p \notin blank /\ (p = 1 \/ (p - 1) \in blank) }
        end(p) == CHOOSE q \in p..Len(s) :
                      /\ q = Len(s) \/ (q + 1) \in blank
                      /\ \A r \in p..q : r \notin blank
    IN  [k \in 1..Cardinality(starts) |-> SubSeq(s, Nth(starts, k), end(Nth(starts, k)))]

RECURSIVE JoinFrom(_, _, _)
JoinFrom(toks, sep, k) ==
    IF k > Len(toks) THEN ""
    ELSE IF k = Len(toks) THEN toks[k]
    ELSE toks[k] \o sep \o JoinFrom(toks, sep, k + 1)

\* sep.join(toks[from:]), from counted from 1
Join(toks, sep, from) == JoinFrom(toks, sep, from)

\* s.replace(c, '') for a one-character c
Remove(s, c) == Join(SplitOn(s, c), "", 1)

\* re.sub(c, d, s) for a one-character literal c
Subst(s, c, d) == Join(SplitOn(s, c), d, 1)

RECURSIVE NatFrom(_, _, _)
NatFrom(s, p, acc) ==
    IF p > Len(s) THEN acc ELSE NatFrom(s, p + 1, 10 * acc + DigitVal(Char(s, p)))

\* the number a run of digits writes
Nat10(s) == NatFrom(s, 1, 0)

(***************************************************************************)
(* int() and float() on the tokens the scan hands them.                    *)
(***************************************************************************)
\* int(s) succeeds: an optional sign and at least one digit
IntOk(s) ==
    LET body == IF Len(s) > 0 /\ Char(s, 1) \in {"+", "-"} THEN SubSeq(s, 2, Len(s)) ELSE s
    IN  Len(body) > 0 /\ AllDigits(body, 1, Len(body))

IntVal(s) ==
    IF Char(s, 1) = "-" THEN 0 - Nat10(SubSeq(s, 2, Len(s)))
    ELSE IF Char(s, 1) = "+" THEN Nat10(SubSeq(s, 2, Len(s)))
    ELSE Nat10(s)

\* the unsigned part of a decimal numeral: digits, or digits "." digits with
\* one side possibly empty, and at most two decimals
DecimalBody(s) ==
    LET parts == SplitOn(s, ".")
    IN  \/ Len(parts) = 1 /\ Len(s) > 0 /\ AllDigits(s, 1, Len(s))
        \/ /\ Len(parts) = 2
           /\ Len(parts[1]) + Len(parts[2]) > 0
           /\ Len(parts[2]) <= 2
           /\ AllDigits(parts[1], 1, Len(parts[1]))
           /\ AllDigits(parts[2], 1, Len(parts[2]))

\* float(s) succeeds (it raises ValueError otherwise, as on "1,234.56")
FloatOk(s) ==
    LET body == IF Len(s) > 0 /\ Char(s, 1) \in {"+", "-"} THEN SubSeq(s, 2, Len(s)) ELSE s
    IN  DecimalBody(body)

\* float(s), in cents
FloatCents(s) ==
    LET neg   == Char(s, 1) = "-"
        body  == IF Char(s, 1) \in {"+", "-"} THEN SubSeq(s, 2, Len(s)) ELSE s
        parts == SplitOn(body, ".")
        whole == Nat10(parts[1])
        frac  == IF Len(parts) = 1 THEN 0
                 ELSE IF Len(parts[2]) = 1 THEN 10 * Nat10(parts[2])
                 ELSE Nat10(parts[2])
        mag   == 100 * whole + frac
    IN  IF neg THEN 0 - mag ELSE mag

(***************************************************************************)
(* The four compiled patterns.                                             *)
(***************************************************************************)
\* s[a..b] matches \d{1,3}(,\d{3})* as a whole
Grouped(s, a, b) ==
    \E n \in 1..3 :
        /\ a + n - 1 <= b
        /\ AllDigits(s, a, a + n - 1)
        /\ (b - (a + n - 1)) % 4 = 0
        /\ \A k \in 0..(((b - (a + n - 1)) \div 4) - 1) :
               /\ Char(s, a + n + 4 * k) = ","
               /\ AllDigits(s, a + n + 4 * k + 1, a + n + 4 * k + 3)

\* check_pattern.match(line): \d+ \d+\.\d{2} \d{2}/\d{2} at the start of the
\* line, whatever follows
check_pattern(line) ==
    \E a \in 1..Len(line) :
        /\ AllDigits(line, 1, a)
        /\ a + 1 <= Len(line) /\ Char(line, a + 1) = " "
        /\ \E b \in (a + 2)..Len(line) :
               /\ AllDigits(line, a + 2, b)
               /\ b + 9 <= Len(line)
               /\ Char(line, b + 1) = "."
               /\ AllDigits(line, b + 2, b + 3)
               /\ Char(line, b + 4) = " "
               /\ AllDigits(line, b + 5, b + 6)
               /\ Char(line, b + 7) = "/"
               /\ AllDigits(line, b + 8, b + 9)

\* trans_pattern.match(line): ^\d{2}/\d{2} (\d{1,3}(,\d{3})*|\d*)\.\d{2} and a
\* blank, at the start of the line
trans_pattern(line) ==
    /\ Len(line) >= 6
    /\ AllDigits(line, 1, 2)
    /\ Char(line, 3) = "/"
    /\ AllDigits(line, 4, 5)
    /\ Char(line, 6) = " "
    /\ \E e \in 6..Len(line) :
           /\ Grouped(line, 7, e) \/ AllDigits(line, 7, e)
           /\ e + 4 <= Len(line)
           /\ Char(line, e + 1) = "."
           /\ AllDigits(line, e + 2, e + 3)
           /\ Char(line, e + 4) = " "

\* one token of the totals line: \d{1,3}(?:,\d{3})*\.\d{2}-?
TotalsToken(t) ==
    LET n == IF EndsWith(t, "-") THEN Len(t) - 1 ELSE Len(t)
    IN  /\ n >= 4
        /\ Grouped(t, 1, n - 3)
        /\ Char(t, n - 2) = "."
        /\ AllDigits(t, n - 1, n)

\* totals_pattern.match(line): the whole line is four such tokens, one blank
\* between two of them
totals_pattern(line) ==
    LET parts == SplitOn(line, " ")
    IN  Len(parts) = 4 /\ \A k \in 1..4 : TotalsToken(parts[k])

PeriodPrefix == "For the period "
PeriodInfix == " to "

\* s[p..p+9] is \d{2}/\d{2}/\d{4}
DateAt(s, p) ==
    /\ AllDigits(s, p, p + 1)
    /\ Char(s, p + 2) = "/"
    /\ AllDigits(s, p + 3, p + 4)
    /\ Char(s, p + 5) = "/"
    /\ AllDigits(s, p + 6, p + 9)

\* the places of line where period_pattern matches
PeriodAt(line) ==
    { p \in 1..(Len(line) - 38) :
        /\ SubSeq(line, p, p + 14) = PeriodPrefix
        /\ DateAt(line, p + 15)
        /\ SubSeq(line, p + 25, p + 28) = PeriodInfix
        /\ DateAt(line, p + 29) }

\* period_pattern.search(line) finds a match
period_pattern(line) == PeriodAt(line) # {}

\* match.groups() of the leftmost match, reduced to the three groups the
\* assignment of line 112 keeps: start_month, start_year, end_year
PeriodGroups(line) ==
    LET p == CHOOSE q \in PeriodAt(line) : \A r \in PeriodAt(line) : q <= r
    IN  [start_month |-> SubSeq(line, p + 15, p + 16),
         start_year  |-> SubSeq(line, p + 21, p + 24),
         end_year    |-> SubSeq(line, p + 35, p + 38)]

(***************************************************************************)
(* The state: the argument, the locals of parse_transaction_text, the      *)
(* records it logs and what it hands back.                                 *)
(***************************************************************************)
VARIABLES
    data,                \* the argument: the sequence of lines
    pc,                  \* where the invocation stands
    i,                   \* the place in data of the line zip(head, tail) yields next
    transactions,        \* the list being built
    trans_type,          \* "None", "DEPOSIT", "CHECK" or "DEDUCTION"
    expected_deposits,   \* cents
    expected_deductions, \* cents
    start_month, start_year, end_year,
    clock,               \* the year datetime.now() gave this invocation, "" when not read
    log,                 \* the records this invocation has logged
    result,              \* the list returned
    exc,                 \* the exception that left the invocation, "" when none
    history              \* one entry per finished invocation

vars == <<data, pc, i, transactions, trans_type, expected_deposits,
          expected_deductions, start_month, start_year, end_year, clock, log,
          result, exc, history>>

locals == <<i, transactions, trans_type, expected_deposits, expected_deductions,
            start_month, start_year, end_year, clock>>

\* class TransactionType
TransactionType == {"DEDUCTION", "DEPOSIT", "CHECK"}

\* class Transaction
Transaction(date, type, amount, description) ==
    [date |-> date, type |-> type, amount |-> amount, description |-> description]

\* one call of log.<level>(...); expected and got are the two amounts the
\* reconciliation messages print, 0 elsewhere
Log(level, msg) == [level |-> level, msg |-> msg, expected |-> 0, got |-> 0]

LogTotals(level, msg, expected, got) ==
    [level |-> level, msg |-> msg, expected |-> expected, got |-> got]

\* the years datetime.now().year may give
ClockYears == {"2025", "2026"}

(***************************************************************************)
(* The pieces of one iteration of the main loop.                           *)
(***************************************************************************)
\* reserved with the check-section header left out
reservedWithoutChecks ==
    << "Deposits and Other Additions",
       "Banking/Debit Card Withdrawals and Purchases",
       "Online and Electronic Banking Deductions",
       "Other Deductions",
       "Daily Balance Detail" >>

\* the tuple of line 96
reserved ==
    << "Deposits and Other Additions",
       "Checks and Substitute Checks",
       "Banking/Debit Card Withdrawals and Purchases",
       "Online and Electronic Banking Deductions",
       "Other Deductions",
       "Daily Balance Detail" >>

\* lines 132-134: the text handed to float for one token of the totals line
TotalText(l) ==
    IF EndsWith(l, "-") THEN "-" \o SubSeq(l, 1, Len(l) - 1) ELSE Remove(l, ",")

\* line 129: the line is taken as the totals line
HonoursTotals(exp_deductions, line) ==
    exp_deductions = 0 /\ totals_pattern(line)

\* line 135 raises ValueError on some token
TotalsRaises(line) ==
    \E k \in 1..Len(Split(line)) : ~FloatOk(TotalText(Split(line)[k]))

\* lines 130-135: the list totals
Totals(line) ==
    [k \in 1..Len(Split(line)) |-> FloatCents(TotalText(Split(line)[k]))]

\* SectionOf taking the withdrawals header only when the check section is open
SectionOfInOrder(line, cur) ==
    IF Contains(line, "Deposits and Other Additions") THEN "DEPOSIT"
    ELSE IF Contains(line, "Checks and Substitute Checks") THEN "CHECK"
    ELSE IF cur = "CHECK" /\ Contains(line, "Banking/Debit Card Withdrawals and Purchases")
         THEN "DEDUCTION"
    ELSE cur

\* lines 140-147: the category after the header tests
SectionOf(line, cur) ==
    IF Contains(line, "Deposits and Other Additions") THEN "DEPOSIT"
    ELSE IF Contains(line, "Checks and Substitute Checks") THEN "CHECK"
    ELSE IF Contains(line, "Banking/Debit Card Withdrawals and Purchases") THEN "DEDUCTION"
    ELSE cur

\* lines 140-150: the loop breaks at this line
Terminal(line) ==
    /\ ~Contains(line, "Deposits and Other Additions")
    /\ ~Contains(line, "Checks and Substitute Checks")
    /\ ~Contains(line, "Banking/Debit Card Withdrawals and Purchases")
    /\ Contains(line, "Daily Balance Detail")

\* lines 143, 146, 149: what the header tests log
SectionLog(line) ==
    IF Contains(line, "Deposits and Other Additions") THEN <<>>
    ELSE IF Contains(line, "Checks and Substitute Checks")
         THEN <<Log("INFO", "End deposit section, begin check lookup...")>>
    ELSE IF Contains(line, "Banking/Debit Card Withdrawals and Purchases")
         THEN <<Log("INFO", "End check section, begin transaction lookup...")>>
    ELSE IF Contains(line, "Daily Balance Detail")
         THEN <<Log("INFO", "Processing complete!")>>
    ELSE <<>>

\* ResolveYear with > for >=
ResolveYearStrict(month, sm, sy, ey) ==
    IF sy # ey
    THEN IF IntVal(month) > IntVal(sm) THEN sy ELSE ey
    ELSE sy

\* lines 160-166 and 175-181: the year of a date printed as MM/DD
ResolveYear(month, sm, sy, ey) ==
    IF sy # ey
    THEN IF IntVal(month) >= IntVal(sm) THEN sy ELSE ey
    ELSE sy

\* lines 167-168 and 182-183
FormatDate(month, day, year) ==
    Subst(month \o "/" \o day \o "/" \o year, "/", ".")

\* Groups when the loop stops after the first group
GroupsFirst(tokens) == 1

\* range(0, len(tokens), 4): the number of groups the check loop visits
Groups(tokens) == (Len(tokens) + 3) \div 4

\* line 159: month, day = text.split('/') raises unless there are two parts;
\* line 161: int(month) raises when the years differ and month is no number
DateError(parts, sy, ey) ==
    IF Len(parts) # 2 THEN "ValueError"
    ELSE IF sy # ey /\ ~IntOk(parts[1]) THEN "ValueError"
    ELSE ""

\* lines 157-169 for the g-th group: the exception it raises, "" when none
GroupError(tokens, g, sy, ey) ==
    IF 4 * g - 2 > Len(tokens) THEN "IndexError"
    ELSE IF ~FloatOk(Remove(tokens[4 * g - 2], ",")) THEN "ValueError"
    ELSE IF 4 * g - 1 > Len(tokens) THEN "IndexError"
    ELSE IF DateError(SplitOn(tokens[4 * g - 1], "/"), sy, ey) # ""
         THEN DateError(SplitOn(tokens[4 * g - 1], "/"), sy, ey)
    ELSE IF 4 * g > Len(tokens) THEN "IndexError"
    ELSE ""

\* lines 159-168: the date of an entry from the two parts of its MM/DD text
EntryDate(parts, sm, sy, ey) ==
    FormatDate(parts[1], parts[2], ResolveYear(parts[1], sm, sy, ey))

\* lines 157-171 for the g-th group: the transaction appended
CheckTransaction(tokens, g, sm, sy, ey) ==
    Transaction(EntryDate(SplitOn(tokens[4 * g - 1], "/"), sm, sy, ey),
                "CHECK",
                FloatCents(Remove(tokens[4 * g - 2], ",")),
                "Check number: " \o tokens[4 * g - 3] \o " [ref:" \o tokens[4 * g] \o "]")

\* the groups that raise
BadGroups(tokens, sy, ey) ==
    { g \in 1..Groups(tokens) : GroupError(tokens, g, sy, ey) # "" }

\* the first group that raises, one past the last group when none does
FirstBad(n, bad) ==
    IF bad = {} THEN n + 1 ELSE CHOOSE g \in bad : \A h \in bad : g <= h

\* lines 156-171 on the tokens of the line: the groups before the first one
\* that raises are appended, and that one's exception leaves the loop
CheckLoop(tokens, first, sm, sy, ey) ==
    [exc  |-> IF first > Groups(tokens) THEN "" ELSE GroupError(tokens, first, sy, ey),
     txns |-> [g \in 1..(first - 1) |-> CheckTransaction(tokens, g, sm, sy, ey)],
     log  |-> <<Log("INFO", "Processing checks...")>>]

\* lines 154-171
CheckEntries(tokens, sm, sy, ey) ==
    CheckLoop(tokens, FirstBad(Groups(tokens), BadGroups(tokens, sy, ey)), sm, sy, ey)

\* lines 187-193: the description with the next line appended or not
Continued(description, next_line) ==
    IF ~trans_pattern(next_line) /\ ~(\E r \in 1..Len(reserved) : Contains(next_line, reserved[r]))
    THEN description \o " " \o next_line
    ELSE description

\* lines 173-194: the transaction of a deposit or deduction line
TransEntry(tokens, next_line, type, sm, sy, ey) ==
    Transaction(EntryDate(SplitOn(tokens[1], "/"), sm, sy, ey),
                type,
                FloatCents(Remove(tokens[2], ",")),
                Continued(Join(tokens, " ", 3), next_line))

\* Entries trying the date+amount pattern whatever the category
EntriesAnyCategory(line, next_line, type, sm, sy, ey) ==
    IF type = "CHECK" /\ check_pattern(line)
    THEN CheckEntries(Split(line), sm, sy, ey)
    ELSE IF trans_pattern(line)
    THEN [exc  |-> "",
          txns |-> <<TransEntry(Split(line), next_line, type, sm, sy, ey)>>,
          log  |-> <<>>]
    ELSE [exc |-> "", txns |-> <<>>, log |-> <<>>]

\* lines 153-194: what the entry tests add for the line under category type
Entries(line, next_line, type, sm, sy, ey) ==
    IF type = "CHECK" /\ check_pattern(line)
    THEN CheckEntries(Split(line), sm, sy, ey)
    ELSE IF type \in {"DEDUCTION", "DEPOSIT"} /\ trans_pattern(line)
    THEN [exc  |-> "",
          txns |-> <<TransEntry(Split(line), next_line, type, sm, sy, ey)>>,
          log  |-> <<>>]
    ELSE [exc |-> "", txns |-> <<>>, log |-> <<>>]

\* lines 129-137: the expected totals after the totals test, or the ValueError
\* of line 135
TotalsStep(line, exp_dep, exp_ded) ==
    IF HonoursTotals(exp_ded, line)
    THEN IF TotalsRaises(line)
         THEN [exc |-> "ValueError", exp_dep |-> exp_dep, exp_ded |-> exp_ded]
         ELSE [exc |-> "", exp_dep |-> Totals(line)[2], exp_ded |-> Totals(line)[3]]
    ELSE [exc |-> "", exp_dep |-> exp_dep, exp_ded |-> exp_ded]

\* lines 139-194 once the totals test is through: the header tests, the break
\* and the entry tests; e is what the entry tests add
SectionStep(line, type, t, e) ==
    IF Terminal(line)
    THEN [pc |-> "validate", exc |-> "", type |-> SectionOf(line, type),
          exp_dep |-> t.exp_dep, exp_ded |-> t.exp_ded, txns |-> <<>>,
          log |-> SectionLog(line)]
    ELSE [pc |-> IF e.exc = "" THEN "scan" ELSE "raised",
          exc |-> e.exc, type |-> SectionOf(line, type),
          exp_dep |-> t.exp_dep, exp_ded |-> t.exp_ded, txns |-> e.txns,
          log |-> SectionLog(line) \o e.log]

\* lines 128-194 with the outcome t of the totals test
AfterTotals(line, next_line, type, t, sm, sy, ey) ==
    IF t.exc # ""
    THEN [pc |-> "raised", exc |-> t.exc, type |-> type,
          exp_dep |-> t.exp_dep, exp_ded |-> t.exp_ded, txns |-> <<>>, log |-> <<>>]
    ELSE SectionStep(line, type, t,
                     Entries(line, next_line, SectionOf(line, type), sm, sy, ey))

\* lines 128-194: one iteration on (line, next_line), as the values the locals
\* have when the iteration ends, breaks or raises
Iteration(line, next_line, type, exp_dep, exp_ded, sm, sy, ey) ==
    AfterTotals(line, next_line, type, TotalsStep(line, exp_dep, exp_ded), sm, sy, ey)

RECURSIVE SumAmounts(_, _, _)
\* sum(t.amount for t in transactions if t.type in types), from the k-th on
SumAmounts(txns, types, k) ==
    IF k > Len(txns) THEN 0
    ELSE (IF txns[k].type \in types THEN txns[k].amount ELSE 0)
         + SumAmounts(txns, types, k + 1)

\* lines 197-198
ActualDeductions(txns) == SumAmounts(txns, {"CHECK", "DEDUCTION"}, 1)

\* lines 199-200
ActualDeposits(txns) == SumAmounts(txns, {"DEPOSIT"}, 1)

\* DeductionsLog reporting a mismatch only when too much was extracted
DeductionsLogExcess(expected, actual) ==
    IF expected # 0
    THEN IF actual > expected
         THEN <<LogTotals("FATAL", "ERROR; DEDUCTIONS TOTAL EXPECTED", expected, actual)>>
         ELSE <<LogTotals("INFO", "Deduction totals match!", expected, actual)>>
    ELSE <<>>

\* lines 202-208
DeductionsLog(expected, actual) ==
    IF expected # 0
    THEN IF actual # expected
         THEN <<LogTotals("FATAL", "ERROR; DEDUCTIONS TOTAL EXPECTED", expected, actual)>>
         ELSE <<LogTotals("INFO", "Deduction totals match!", expected, actual)>>
    ELSE <<>>

\* DepositsLog comparing also when nothing is expected
DepositsLogAlways(expected, actual) ==
    IF actual # expected
    THEN <<LogTotals("FATAL", "ERROR; DEPOSIT TOTAL EXPECTED", expected, actual)>>
    ELSE <<LogTotals("INFO", "Deposit totals match!", expected, actual)>>

\* lines 210-216
DepositsLog(expected, actual) ==
    IF expected # 0
    THEN IF actual # expected
         THEN <<LogTotals("FATAL", "ERROR; DEPOSIT TOTAL EXPECTED", expected, actual)>>
         ELSE <<LogTotals("INFO", "Deposit totals match!", expected, actual)>>
    ELSE <<>>

\* what an invocation leaves behind for its caller
Outcome(year, raised, returned) == [clock |-> year, exc |-> raised, result |-> returned]

(***************************************************************************)
(* The operations.                                                         *)
(***************************************************************************)
\* Call with trans_type kept from the invocation before, as a module-level
\* variable would be
CallStale ==
    /\ pc \in {"idle", "done", "raised"}
    /\ Len(history) < MaxCalls
    /\ transactions' = <<>>
    /\ trans_type' = trans_type
    /\ expected_deposits' = 0
    /\ expected_deductions' = 0
    /\ start_month' = "" /\ start_year' = "" /\ end_year' = ""
    /\ clock' = ""
    /\ i' = 0
    /\ exc' = ""
    /\ result' = <<>>
    /\ IF Len(data) = 0
       THEN /\ log' = <<Log("WARNING", "No data provided to parse!")>>
            /\ pc' = "done"
            /\ history' = Append(history, Outcome("", "", <<>>))
       ELSE /\ log' = <<>>
            /\ pc' = "period"
            /\ history' = history
    /\ UNCHANGED data

\* Call without the test of line 78: empty data goes through the steps too
CallUnguarded ==
    /\ pc \in {"idle", "done", "raised"}
    /\ Len(history) < MaxCalls
    /\ transactions' = <<>>
    /\ trans_type' = "None"
    /\ expected_deposits' = 0
    /\ expected_deductions' = 0
    /\ start_month' = "" /\ start_year' = "" /\ end_year' = ""
    /\ clock' = ""
    /\ i' = 0
    /\ exc' = ""
    /\ result' = <<>>
    /\ log' = <<>>
    /\ pc' = "period"
    /\ history' = history
    /\ UNCHANGED data

\* lines 77-103: the call; empty data returns at once, otherwise the locals
\* are bound afresh
Call ==
    /\ pc \in {"idle", "done", "raised"}
    /\ Len(history) < MaxCalls
    /\ transactions' = <<>>
    /\ trans_type' = "None"
    /\ expected_deposits' = 0
    /\ expected_deductions' = 0
    /\ start_month' = "" /\ start_year' = "" /\ end_year' = ""
    /\ clock' = ""
    /\ i' = 0
    /\ exc' = ""
    /\ result' = <<>>
    /\ IF Len(data) = 0
       THEN /\ log' = <<Log("WARNING", "No data provided to parse!")>>
            /\ pc' = "done"
            /\ history' = Append(history, Outcome("", "", <<>>))
       ELSE /\ log' = <<>>
            /\ pc' = "period"
            /\ history' = history
    /\ UNCHANGED data

\* ExtractPeriod keeping the last declaration of the period, as a loop without
\* its break would
ExtractPeriodLast ==
    /\ pc = "period"
    /\ LET found == { k \in 1..Len(data) : period_pattern(data[k]) }
       IN  IF found # {}
           THEN LET k == CHOOSE m \in found : \A n \in found : m >= n
                IN  /\ start_month' = PeriodGroups(data[k]).start_month
                    /\ start_year' = PeriodGroups(data[k]).start_year
                    /\ end_year' = PeriodGroups(data[k]).end_year
                    /\ clock' = clock
                    /\ log' = log \o <<Log("INFO", "Begin processing data...")>>
           ELSE \E year \in ClockYears :
                    /\ start_month' = "01"
                    /\ start_year' = year
                    /\ end_year' = year
                    /\ clock' = year
                    /\ log' = log \o
                           << Log("ERROR", "Could not find the transaction period in the statement. Defaulting to current year for all transactions."),
                              Log("INFO", "Begin processing data...") >>
    /\ i' = 1
    /\ pc' = "scan"
    /\ UNCHANGED <<data, transactions, trans_type, expected_deposits,
                   expected_deductions, result, exc, history>>

\* lines 105-126: the statement period, from the first line that declares it or
\* from the clock; then the two iterators are set one line apart
ExtractPeriod ==
    /\ pc = "period"
    /\ LET found == { k \in 1..Len(data) : period_pattern(data[k]) }
       IN  IF found # {}
           THEN LET k == CHOOSE m \in found : \A n \in found : m <= n
                IN  /\ start_month' = PeriodGroups(data[k]).start_month
                    /\ start_year' = PeriodGroups(data[k]).start_year
                    /\ end_year' = PeriodGroups(data[k]).end_year
                    /\ clock' = clock
                    /\ log' = log \o <<Log("INFO", "Begin processing data...")>>
           ELSE \E year \in ClockYears :
                    /\ start_month' = "01"
                    /\ start_year' = year
                    /\ end_year' = year
                    /\ clock' = year
                    /\ log' = log \o
                           << Log("ERROR", "Could not find the transaction period in the statement. Defaulting to current year for all transactions."),
                              Log("INFO", "Begin processing data...") >>
    /\ i' = 1
    /\ pc' = "scan"
    /\ UNCHANGED <<data, transactions, trans_type, expected_deposits,
                   expected_deductions, result, exc, history>>

\* Advance putting the new transactions in front of the list
AdvancePrepend(it) ==
    /\ pc' = it.pc
    /\ exc' = it.exc
    /\ trans_type' = it.type
    /\ expected_deposits' = it.exp_dep
    /\ expected_deductions' = it.exp_ded
    /\ transactions' = it.txns \o transactions
    /\ log' = log \o it.log
    /\ i' = IF it.pc = "scan" THEN i + 1 ELSE i
    /\ history' = IF it.pc = "raised"
                  THEN Append(history, Outcome(clock, it.exc, <<>>))
                  ELSE history

\* the locals, the log and the outcome after an iteration that gave it
Advance(it) ==
    /\ pc' = it.pc
    /\ exc' = it.exc
    /\ trans_type' = it.type
    /\ expected_deposits' = it.exp_dep
    /\ expected_deductions' = it.exp_ded
    /\ transactions' = transactions \o it.txns
    /\ log' = log \o it.log
    /\ i' = IF it.pc = "scan" THEN i + 1 ELSE i
    /\ history' = IF it.pc = "raised"
                  THEN Append(history, Outcome(clock, it.exc, <<>>))
                  ELSE history

\* lines 127-194: one iteration of the loop over zip(head, tail)
ScanStep ==
    /\ pc = "scan"
    /\ i < Len(data)
    /\ Advance(Iteration(data[i], data[i + 1], trans_type, expected_deposits,
                         expected_deductions, start_month, start_year, end_year))
    /\ UNCHANGED <<data, start_month, start_year, end_year, clock, result>>

\* line 127: zip has no pair left
EndOfInput ==
    /\ pc = "scan"
    /\ i >= Len(data)
    /\ pc' = "validate"
    /\ UNCHANGED <<data, locals, log, result, exc, history>>

\* lines 196-217: the sums, the comparison with the expected totals, the return
Validate ==
    /\ pc = "validate"
    /\ log' = log \o DeductionsLog(expected_deductions, ActualDeductions(transactions))
                  \o DepositsLog(expected_deposits, ActualDeposits(transactions))
    /\ result' = transactions
    /\ pc' = "done"
    /\ history' = Append(history, Outcome(clock, "", transactions))
    /\ UNCHANGED <<data, locals, exc>>

Next == Call \/ ExtractPeriod \/ ScanStep \/ EndOfInput \/ Validate

(***************************************************************************)
(* The inputs.                                                             *)
(***************************************************************************)
\* the sequences of at most n members of S
SeqsUpTo(S, n) == UNION { [1..k -> S] : k \in 0..n }

\* the state before the first call, for the argument d
Start(d) ==
    /\ data = d
    /\ pc = "idle"
    /\ i = 0
    /\ transactions = <<>>
    /\ trans_type = "None"
    /\ expected_deposits = 0
    /\ expected_deductions = 0
    /\ start_month = "" /\ start_year = "" /\ end_year = ""
    /\ clock = ""
    /\ log = <<>>
    /\ result = <<>>
    /\ exc = ""
    /\ history = <<>>

\* the arguments a specification draws: a head (the statement's first lines,
\* or none) followed by at most MaxLines lines of a catalogue
Inputs(heads, lines) ==
    { h \o b : h \in heads, b \in SeqsUpTo(lines, MaxLines) }

Period2023 == "For the period 11/15/2023 to 01/14/2024"
Period2024 == "For the period 03/01/2024 to 03/31/2024"

\* the two scenarios of the specification's section 8
ScenarioDeposit ==
    << Period2024,
       "Deposits and Other Additions",
       "03/05 1,200.00 Payroll Deposit",
       "Checks and Substitute Checks",
       "Daily Balance Detail" >>

ScenarioChecks ==
    << Period2024,
       "Checks and Substitute Checks",
       "101 45.00 03/10 REF123 102 60.00 03/11 REF124",
       "Daily Balance Detail" >>

\* a statement with or without its period line: sections, an entry of each
\* kind, the end marker
Lines ==
    { "Deposits and Other Additions",
      "03/05 1,200.00 Payroll Deposit",
      "Checks and Substitute Checks",
      "101 45.00 03/10 REF123 102 60.00 03/11 REF124" }

Init == \E d \in Inputs({<<>>, <<Period2023>>}, Lines) \cup {ScenarioDeposit, ScenarioChecks} : Start(d)

Spec == Init /\ [][Next]_vars

\* check lines: well formed with one and two groups, cut short, and with a
\* second group the line-start pattern does not vouch for
LinesChecks ==
    { "Checks and Substitute Checks",
      "101 45.00 03/10 REF123 102 60.00 03/11 REF124",
      "103 7.25 03/12 REF125",
      "101 45.00 03/10",
      "7 45.00 12/10 R1 8 -60.00 12/11 R2" }

InitChecks == \E d \in Inputs({<<Period2024>>}, LinesChecks) \cup {ScenarioChecks} : Start(d)

SpecChecks == InitChecks /\ [][Next]_vars

\* totals lines: one that prints 0.00 deductions, one that prints both totals,
\* one with a comma-grouped negative; and a deduction to reconcile
LinesTotals ==
    { "1.00 1,200.00 0.00 4.00",
      "1.00 45.00 90.00 4.00",
      "1,234.56- 2.00 3.00 4.00",
      "Banking/Debit Card Withdrawals and Purchases",
      "03/07 90.00 Grocery" }

InitTotals == \E d \in Inputs({<<Period2024>>}, LinesTotals) : Start(d)

SpecTotals == InitTotals /\ [][Next]_vars

\* the example of section 8: 100.00 declared, 90.00 extracted
ScenarioMismatch ==
    << Period2024,
       "0.00 0.00 100.00 0.00",
       "Banking/Debit Card Withdrawals and Purchases",
       "03/07 90.00 Grocery",
       "Daily Balance Detail" >>

\* 90.00 declared, 45.00 of it in a check and 45.00 in a deduction
ScenarioMixed ==
    << Period2024,
       "1.00 1,200.00 90.00 4.00",
       "Checks and Substitute Checks",
       "103 45.00 03/12 REF125",
       "Banking/Debit Card Withdrawals and Purchases",
       "03/07 45.00 Pharmacy",
       "Daily Balance Detail" >>

\* entries that meet or miss the totals line, when there is one
LinesReconcile ==
    { "Deposits and Other Additions",
      "03/05 1,200.00 Payroll Deposit",
      "Banking/Debit Card Withdrawals and Purchases",
      "03/07 90.00 Grocery" }

InitReconcile ==
    \E d \in Inputs({<<Period2024>>, <<Period2024, "1.00 1,200.00 90.00 4.00">>}, LinesReconcile)
                 \cup {ScenarioMismatch, ScenarioMixed} : Start(d)

SpecReconcile == InitReconcile /\ [][Next]_vars

\* the end marker, alone and on a line that also names a section
LinesSections ==
    { "Daily Balance Detail",
      "Daily Balance Detail Deposits and Other Additions",
      "Deposits and Other Additions",
      "03/05 1,200.00 Payroll Deposit",
      "Checks and Substitute Checks" }

InitSections == \E d \in Inputs({<<Period2024>>}, LinesSections) : Start(d)

SpecSections == InitSections /\ [][Next]_vars

\* entries followed by an entry, by reserved lines and by free text
LinesEntries ==
    { "Deposits and Other Additions",
      "03/05 1,200.00 Payroll Deposit",
      "Checks and Substitute Checks",
      "Other Deductions",
      "memo text" }

InitEntries == \E d \in Inputs({<<Period2024>>}, LinesEntries) \cup {ScenarioDeposit} : Start(d)

SpecEntries == InitEntries /\ [][Next]_vars

\* dates before, in and after the start month, under a period of two years, of
\* one year, and under the fallback
LinesYears ==
    { "Deposits and Other Additions",
      "11/20 90.00 Wire",
      "Checks and Substitute Checks",
      "101 45.00 12/05 REF123 102 60.00 01/10 REF124" }

InitYears == \E d \in Inputs({<<>>, <<Period2023>>, <<Period2024>>}, LinesYears) : Start(d)

SpecYears == InitYears /\ [][Next]_vars
\* statements that declare their period once, twice or not at all
LinesPeriod ==
    { Period2023,
      Period2024,
      "Deposits and Other Additions",
      "11/20 90.00 Wire" }

InitPeriod == \E d \in Inputs({<<>>}, LinesPeriod) : Start(d)

SpecPeriod == InitPeriod /\ [][Next]_vars

\* header lines, bare and behind a date and an amount, and an entry
LinesHeaders ==
    { "11/20 90.00 Deposits and Other Additions",
      "Banking/Debit Card Withdrawals and Purchases",
      "03/07 90.00 Other Deductions",
      "Other Deductions",
      "03/07 90.00 Grocery" }

InitHeaders == \E d \in Inputs({<<Period2024>>}, LinesHeaders) : Start(d)

SpecHeaders == InitHeaders /\ [][Next]_vars

\* a statement with its three sections, an entry in each
ScenarioTracker ==
    << Period2024,
       "Deposits and Other Additions",
       "03/05 1,200.00 Payroll Deposit",
       "Checks and Substitute Checks",
       "103 7.25 03/12 REF125",
       "Banking/Debit Card Withdrawals and Purchases",
       "03/07 90.00 Grocery",
       "Daily Balance Detail" >>

\* the three section headers in any order, a deposit and a check
LinesTracker ==
    { "Deposits and Other Additions",
      "Checks and Substitute Checks",
      "Banking/Debit Card Withdrawals and Purchases",
      "03/05 1,200.00 Payroll Deposit",
      "103 7.25 03/12 REF125" }

InitTracker == \E d \in Inputs({<<Period2024>>}, LinesTracker) \cup {ScenarioTracker} : Start(d)

SpecTracker == InitTracker /\ [][Next]_vars

\* free text, entries out of their section and a second totals line
LinesNoise ==
    { "memo text",
      "Deposits and Other Additions",
      "Checks and Substitute Checks",
      "03/05 1,200.00 Payroll Deposit",
      "1.00 45.00 90.00 4.00" }

InitNoise == \E d \in Inputs({<<Period2024>>}, LinesNoise) : Start(d)

SpecNoise == InitNoise /\ [][Next]_vars

\* two checks on one line, then two deposits, the later date first
ScenarioOrder ==
    << Period2024,
       "Checks and Substitute Checks",
       "101 45.00 03/10 REF123 102 60.00 03/11 REF124",
       "Deposits and Other Additions",
       "03/06 15.00 Refund",
       "03/05 1,200.00 Payroll Deposit",
       "Daily Balance Detail" >>

\* two deposits that differ, in either order, with or without free text
LinesOrder ==
    { "Deposits and Other Additions",
      "03/05 1,200.00 Payroll Deposit",
      "03/06 15.00 Refund",
      "memo text" }

InitOrder == \E d \in Inputs({<<Period2024>>}, LinesOrder) \cup {ScenarioOrder, ScenarioChecks} : Start(d)

SpecOrder == InitOrder /\ [][Next]_vars

(***************************************************************************)
(* The claims.                                                             *)
(***************************************************************************)
\* some record of this invocation's log has the level and the message
Logged(level, msg) ==
    \E k \in 1..Len(log) : log[k].level = level /\ log[k].msg = msg

\* the records of the log with the message
LoggedWith(msg) == { k \in 1..Len(log) : log[k].msg = msg }

RECURSIVE SumOf(_, _)
\* the sum of the amounts of the transactions of txns whose type is in types
SumOf(txns, types) ==
    IF Len(txns) = 0 THEN 0
    ELSE (IF Head(txns).type \in types THEN Head(txns).amount ELSE 0)
         + SumOf(Tail(txns), types)

\* C1: parse_transaction_text never raises, whatever the lines: no invocation
\* ends in an exception.
C1_NeverRaises == pc # "raised"

\* the lines taken as current before line i that have the four-number shape
TotalsSeen == { k \in 1..(i - 1) : totals_pattern(data[k]) }

\* C2: totals-first-wins: once a totals-shaped line has been the current line,
\* the expected deposits and deductions are the values at positions 1 and 2 of
\* the first such line, whatever later totals-shaped lines print.
C2_TotalsFirstWins ==
    (pc = "scan" /\ TotalsSeen # {}) =>
        LET first == CHOOSE k \in TotalsSeen : \A m \in TotalsSeen : k <= m
        IN  /\ expected_deposits = Totals(data[first])[2]
            /\ expected_deductions = Totals(data[first])[3]

\* C3: terminal stop: the step that takes a line containing "Daily Balance
\* Detail" as the current line ends the pass and adds no transaction, also
\* when the line names a section.
C3_TerminalStops ==
    [][ (pc = "scan" /\ i < Len(data) /\ Contains(data[i], "Daily Balance Detail"))
            => (pc' = "validate" /\ transactions' = transactions) ]_vars

\* C4: the pass covers all input lines: it ends only when the current line is
\* the terminal marker or when every line has been the current line.
C4_PassCoversAllLines ==
    [][ (pc = "scan" /\ pc' = "validate")
            => (i > Len(data) \/ Contains(data[i], "Daily Balance Detail")) ]_vars

\* C5: every transaction of the returned list has one of the three categories
\* and a non-negative amount.
C5_CategoryAndSign ==
    \A k \in 1..Len(result) :
        /\ result[k].type \in {"DEDUCTION", "DEPOSIT", "CHECK"}
        /\ result[k].amount >= 0

\* the six reserved substrings of the continuation rule
C6_Reserved ==
    { "Deposits and Other Additions",
      "Checks and Substitute Checks",
      "Banking/Debit Card Withdrawals and Purchases",
      "Online and Electronic Banking Deductions",
      "Other Deductions",
      "Daily Balance Detail" }

\* the step appends one Deposit or Deduction entry
C6_AppendsEntry ==
    /\ pc = "scan" /\ i < Len(data)
    /\ Len(transactions') = Len(transactions) + 1
    /\ transactions'[Len(transactions')].type \in {"DEPOSIT", "DEDUCTION"}

\* the description the continuation rule gives the entry of the current line
C6_Description ==
    IF ~trans_pattern(data[i + 1]) /\ \A r \in C6_Reserved : ~Contains(data[i + 1], r)
    THEN Join(Split(data[i]), " ", 3) \o " " \o data[i + 1]
    ELSE Join(Split(data[i]), " ", 3)

\* C6: continuation rule: the next line is appended, after a blank, to the
\* description of a Deposit/Deduction entry if and only if it does not start
\* with the date+amount prefix and holds none of the six reserved substrings;
\* the deposit scenario yields "Payroll Deposit", 1200.00, Deposit.
C6_Continuation ==
    /\ [][ C6_AppendsEntry =>
              transactions'[Len(transactions')].description = C6_Description ]_vars
    /\ [] ( (pc = "done" /\ data = ScenarioDeposit) =>
              /\ Len(result) = 1
              /\ result[1].description = "Payroll Deposit"
              /\ result[1].amount = 120000
              /\ result[1].type = "DEPOSIT" )

\* an entry followed by an entry keeps its own words, the next one followed by
\* free text takes that text
C6_Witness ==
    /\ pc = "done"
    /\ Len(result) = 2
    /\ result[1].description = "Payroll Deposit"
    /\ result[2].description = "Payroll Deposit memo text"

\* the year the disambiguation rule gives month
C7_Year(month) ==
    IF start_year = end_year THEN start_year
    ELSE IF Nat10(month) >= Nat10(start_month) THEN start_year
    ELSE end_year

\* C7: year disambiguation: the year of every check, deposit and deduction
\* date is start_year when the two years are equal, and otherwise start_year
\* for a month >= start_month and end_year for an earlier month; under
\* start_month 11 and 2023/2024, 12/05 is in 2023 and 01/10 in 2024.
C7_YearDisambiguation ==
    \A k \in 1..Len(transactions) :
        LET date == transactions[k].date
        IN  /\ SubSeq(date, 7, 10) = C7_Year(SubSeq(date, 1, 2))
            /\ (start_month = "11" /\ start_year = "2023" /\ end_year = "2024") =>
                   /\ SubSeq(date, 1, 5) = "12.05" => date = "12.05.2023"
                   /\ SubSeq(date, 1, 5) = "01.10" => date = "01.10.2024"
                   /\ SubSeq(date, 1, 5) = "11.20" => date = "11.20.2023"

\* a check line of a two-year statement gave one date in each year
C7_Witness ==
    /\ pc = "done"
    /\ start_year = "2023" /\ end_year = "2024"
    /\ \E k \in 1..Len(result) : result[k].type = "CHECK" /\ result[k].date = "12.05.2023"
    /\ \E k \in 1..Len(result) : result[k].type = "CHECK" /\ result[k].date = "01.10.2024"

\* C8: reconciliation reporting: when a non-empty input's pass has ended, the
\* deductions mismatch is logged exactly when the expected deductions are
\* nonzero and differ from the sum of the Check and Deduction amounts (deposits
\* alike, with the Deposit amounts), the sums logged are those sums, and the
\* list returned is the list extracted.
C8_Reconciliation ==
    (pc = "done" /\ Len(data) > 0) =>
        /\ result = transactions
        /\ Logged("FATAL", "ERROR; DEDUCTIONS TOTAL EXPECTED")
             <=> (expected_deductions # 0
                  /\ expected_deductions # SumOf(result, {"CHECK", "DEDUCTION"}))
        /\ Logged("FATAL", "ERROR; DEPOSIT TOTAL EXPECTED")
             <=> (expected_deposits # 0
                  /\ expected_deposits # SumOf(result, {"DEPOSIT"}))
        /\ \A k \in LoggedWith("ERROR; DEDUCTIONS TOTAL EXPECTED")
                     \cup LoggedWith("Deduction totals match!") :
               /\ log[k].got = SumOf(result, {"CHECK", "DEDUCTION"})
               /\ log[k].expected = expected_deductions
        /\ \A k \in LoggedWith("ERROR; DEPOSIT TOTAL EXPECTED")
                     \cup LoggedWith("Deposit totals match!") :
               /\ log[k].got = SumOf(result, {"DEPOSIT"})
               /\ log[k].expected = expected_deposits

\* the example: 100.00 declared, 90.00 extracted, the mismatch logged and the
\* transaction returned
C8_Witness ==
    /\ pc = "done"
    /\ data = ScenarioMismatch
    /\ expected_deductions = 10000
    /\ Logged("FATAL", "ERROR; DEDUCTIONS TOTAL EXPECTED")
    /\ Len(result) = 1 /\ result[1].amount = 9000

\* C9: idempotence and independence of invocations: two invocations on the
\* same lines that read the same clock year end alike, with equal lists in the
\* same order, and an invocation starts from fresh locals whatever the one
\* before left.
C9_Idempotence ==
    /\ \A a, b \in 1..Len(history) :
           history[a].clock = history[b].clock =>
               /\ history[a].exc = history[b].exc
               /\ history[a].result = history[b].result
    /\ pc = "period" =>
           /\ transactions = <<>>
           /\ trans_type = "None"
           /\ expected_deposits = 0 /\ expected_deductions = 0

\* two invocations have returned the same non-empty list
C9_Witness ==
    /\ Len(history) = 2
    /\ history[1].clock = history[2].clock
    /\ history[1].exc = ""
    /\ Len(history[1].result) = 2
    /\ history[2].result = history[1].result

\* token t is \d+\.\d{2}, an amount as the check pattern reads it
C10_Amount(t) ==
    /\ Len(t) >= 4
    /\ AllDigits(t, 1, Len(t) - 3)
    /\ Char(t, Len(t) - 2) = "."
    /\ AllDigits(t, Len(t) - 1, Len(t))

\* the cents of such a token
C10_Cents(t) == 100 * Nat10(SubSeq(t, 1, Len(t) - 3)) + Nat10(SubSeq(t, Len(t) - 1, Len(t)))

\* tokens are N >= 1 groups of check number, amount, MM/DD and reference
C10_Groups(tokens) ==
    /\ Len(tokens) > 0
    /\ Len(tokens) % 4 = 0
    /\ \A g \in 1..(Len(tokens) \div 4) :
           /\ AllDigits(tokens[4 * g - 3], 1, Len(tokens[4 * g - 3]))
           /\ C10_Amount(tokens[4 * g - 2])
           /\ Len(tokens[4 * g - 1]) = 5
           /\ AllDigits(tokens[4 * g - 1], 1, 2)
           /\ Char(tokens[4 * g - 1], 3) = "/"
           /\ AllDigits(tokens[4 * g - 1], 4, 5)

\* the step takes a line of such groups as the current line under Check
C10_OnCheckLine ==
    /\ pc = "scan" /\ i < Len(data)
    /\ trans_type = "CHECK"
    /\ C10_Groups(Split(data[i]))

C11_Declared == { k \in 1..Len(data) : Contains(data[k], "For the period ") }

\* the first of them
C11_First == CHOOSE k \in C11_Declared : \A m \in C11_Declared : k <= m

\* the text of s from the first occurrence of phrase on
C11_From(s, phrase) ==
    LET at == { p \in 1..(Len(s) - Len(phrase) + 1) : SubSeq(s, p, p + Len(phrase) - 1) = phrase }
    IN  SubSeq(s, CHOOSE p \in at : \A q \in at : p <= q, Len(s))

\* C11: period extraction: once the period step is through, the period is the
\* one the first declaring line states (MM and YYYY of its first date, YYYY of
\* its second), whatever later declaring lines say; with no declaring line the
\* two years are the clock's year, the start month is "01" and the error is
\* logged; in both cases the pass goes on.
C11_PeriodExtraction ==
    /\ [] ( (pc \in {"scan", "validate"} \/ (pc = "done" /\ Len(data) > 0)) =>
              IF C11_Declared # {}
              THEN LET text == C11_From(data[C11_First], "For the period ")
                   IN  /\ start_month = SubSeq(text, 16, 17)
                       /\ start_year = SubSeq(text, 22, 25)
                       /\ end_year = SubSeq(text, 36, 39)
                       /\ ~Logged("ERROR", "Could not find the transaction period in the statement. Defaulting to current year for all transactions.")
              ELSE /\ clock \in ClockYears
                   /\ start_year = clock /\ end_year = clock
                   /\ start_month = "01"
                   /\ Logged("ERROR", "Could not find the transaction period in the statement. Defaulting to current year for all transactions.") )
    /\ [][ pc = "period" => pc' = "scan" ]_vars

\* a statement that declares 2024 first and 2023/2024 later was read as 2024,
\* and its entry dated with that year
C11_Witness ==
    /\ pc = "done"
    /\ Len(data) = 4
    /\ data[1] = Period2024 /\ data[4] = Period2023
    /\ start_month = "03" /\ start_year = "2024" /\ end_year = "2024"
    /\ Len(result) = 1 /\ result[1].date = "11.20.2024"

\* C12: empty input: a call on no lines returns the empty list with the
\* warning as its only log record and without an exception, and never enters
\* the period, scan or reconciliation steps (no clock is read, no period set).
C12_EmptyInput ==
    data = <<>> =>
        /\ pc \in {"idle", "done"}
        /\ exc = ""
        /\ pc = "done" =>
               /\ result = <<>>
               /\ log = <<[level |-> "WARNING", msg |-> "No data provided to parse!",
                           expected |-> 0, got |-> 0]>>
               /\ clock = "" /\ start_year = "" /\ end_year = "" /\ start_month = ""
               /\ i = 0
        /\ \A k \in 1..Len(history) :
               history[k].exc = "" /\ history[k].result = <<>>

\* the call on no lines has returned
C12_Witness ==
    /\ data = <<>>
    /\ pc = "done"
    /\ Len(history) = 1
    /\ result = <<>>
    /\ Logged("WARNING", "No data provided to parse!")

\* the four header substrings of the section tracker
C13_Headers ==
    { "Deposits and Other Additions",
      "Checks and Substitute Checks",
      "Banking/Debit Card Withdrawals and Purchases",
      "Daily Balance Detail" }

\* C13: a header line never becomes a transaction entry: the step that takes a
\* line holding one of the four header substrings as the current line adds no
\* transaction, whatever the category before or after it.
C13_HeaderNoEntry ==
    [][ (pc = "scan" /\ i < Len(data)
           /\ \E h \in C13_Headers : Contains(data[i], h))
            => transactions' = transactions ]_vars

\* C15: the step that takes a line holding "Online and Electronic Banking
\* Deductions" or "Other Deductions", and none of the four tracker headers, as
\* the current line leaves the category, the expected totals and the
\* transaction list as they were.
C15_BoundaryFrame ==
    [][ (pc = "scan" /\ i < Len(data)
           /\ (Contains(data[i], "Online and Electronic Banking Deductions")
                 \/ Contains(data[i], "Other Deductions"))
           /\ \A h \in C13_Headers : ~Contains(data[i], h))
            => /\ trans_type' = trans_type
               /\ expected_deposits' = expected_deposits
               /\ expected_deductions' = expected_deductions
               /\ transactions' = transactions ]_vars

\* the categories the header substrings of a line name
C14_Named(line) ==
    (IF Contains(line, "Deposits and Other Additions") THEN {"DEPOSIT"} ELSE {})
    \cup (IF Contains(line, "Checks and Substitute Checks") THEN {"CHECK"} ELSE {})
    \cup (IF Contains(line, "Banking/Debit Card Withdrawals and Purchases")
          THEN {"DEDUCTION"} ELSE {})

\* the lines among the first n that name a category
C14_HeaderLines(n) == { k \in 1..n : C14_Named(data[k]) # {} }

\* the category after the first n lines: the one named by the last of them
\* that names one
C14_Current(n) ==
    IF C14_HeaderLines(n) = {} THEN {"None"}
    ELSE C14_Named(data[CHOOSE k \in C14_HeaderLines(n) :
                            \A m \in C14_HeaderLines(n) : m <= k])

\* C14: section tracking: while lines 1..i-1 have been taken, the category is
\* the one named by the most recent of them that holds a category header, and
\* unset before the first; every transaction a step appends carries the
\* category current at its line, and none is appended while it is unset.
C14_SectionTracking ==
    /\ [] ( pc = "scan" => trans_type \in C14_Current(i - 1) )
    /\ [][ (pc = "scan" /\ i < Len(data)) =>
             \A k \in (Len(transactions) + 1)..Len(transactions') :
                 /\ transactions'[k].type \in C14_Current(i)
                 /\ transactions'[k].type # "None" ]_vars
    /\ [] ( C14_Current(0) = {"None"}
            /\ (trans_type = "None" => transactions = <<>>) )

\* the statement with three sections has returned one entry of each category
C14_Witness ==
    /\ pc = "done"
    /\ data = ScenarioTracker
    /\ Len(result) = 3
    /\ result[1].type = "DEPOSIT"
    /\ result[2].type = "CHECK"
    /\ result[3].type = "DEDUCTION"

\* the cents a totals token prints: thousands separators stripped, a trailing
\* minus read as negation
C16_Decode(t) ==
    LET neg    == EndsWith(t, "-")
        digits == Remove(IF neg THEN SubSeq(t, 1, Len(t) - 1) ELSE t, ",")
        cents  == 100 * Nat10(SubSeq(digits, 1, Len(digits) - 3))
                      + Nat10(SubSeq(digits, Len(digits) - 1, Len(digits)))
    IN  IF neg THEN 0 - cents ELSE cents

\* C16: totals decoding: the step that takes the first totals-shaped line as
\* the current line decodes it without an exception, and leaves the value of
\* the token at position 1 as expected deposits and the value of the token at
\* position 2 as expected deductions.
C16_TotalsDecoding ==
    [][ (pc = "scan" /\ i < Len(data) /\ TotalsSeen = {} /\ totals_pattern(data[i]))
            => /\ pc' # "raised"
               /\ expected_deposits' = C16_Decode(Split(data[i])[2])
               /\ expected_deductions' = C16_Decode(Split(data[i])[3]) ]_vars

\* C17: zero expected total means not validated: when the pass has ended with
\* expected deductions of exactly zero, nothing was logged about deductions,
\* neither mismatch nor match, whatever was extracted; deposits alike.
C17_ZeroNotValidated ==
    (pc = "done" /\ Len(data) > 0) =>
        /\ expected_deductions = 0 =>
               LoggedWith("ERROR; DEDUCTIONS TOTAL EXPECTED")
                   \cup LoggedWith("Deduction totals match!") = {}
        /\ expected_deposits = 0 =>
               LoggedWith("ERROR; DEPOSIT TOTAL EXPECTED")
                   \cup LoggedWith("Deposit totals match!") = {}

\* the totals line printed 0.00 deductions, 90.00 of deductions were extracted
\* and only the deposits were compared
C17_Witness ==
    /\ pc = "done"
    /\ Len(data) > 1 /\ data[2] = "1.00 1,200.00 0.00 4.00"
    /\ expected_deductions = 0
    /\ SumOf(result, {"CHECK", "DEDUCTION"}) = 9000
    /\ Logged("FATAL", "ERROR; DEPOSIT TOTAL EXPECTED")
    /\ ~Logged("FATAL", "ERROR; DEDUCTIONS TOTAL EXPECTED")

\* the current line is none of: a header line, the totals line being honoured,
\* a check line under Check, a date+amount line under Deposit or Deduction
C18_Unrecognized ==
    /\ pc = "scan" /\ i < Len(data)
    /\ \A h \in C13_Headers : ~Contains(data[i], h)
    /\ ~(expected_deductions = 0 /\ totals_pattern(data[i]))
    /\ ~(trans_type = "CHECK" /\ check_pattern(data[i]))
    /\ ~(trans_type \in {"DEPOSIT", "DEDUCTION"} /\ trans_pattern(data[i]))

\* C18: unrecognized lines are skipped without effect: the step on such a line
\* leaves the category, the expected totals and the transaction list as they
\* were, raises nothing and goes on to the next line.
C18_SkippedWithoutEffect ==
    [][ C18_Unrecognized =>
          /\ trans_type' = trans_type
          /\ expected_deposits' = expected_deposits
          /\ expected_deductions' = expected_deductions
          /\ transactions' = transactions
          /\ exc' = "" /\ pc' = "scan" /\ i' = i + 1 ]_vars

\* under Check, a date+amount line and then free text were passed over;
\* nothing was extracted and the pass stands at the next line
C18_Witness ==
    /\ pc = "scan"
    /\ i = 5
    /\ data[2] = "Checks and Substitute Checks"
    /\ data[3] = "03/05 1,200.00 Payroll Deposit"
    /\ data[4] = "memo text"
    /\ trans_type = "CHECK"
    /\ transactions = <<>>

\* transaction t is the k-th that line gives: a check carries the number and
\* the reference of the k-th group, another entry the month and day that start
\* the line
C19_FromLine(t, line, k) ==
    IF t.type = "CHECK"
    THEN /\ 4 * k <= Len(Split(line))
         /\ t.description = "Check number: " \o Split(line)[4 * k - 3]
                                \o " [ref:" \o Split(line)[4 * k] \o "]"
    ELSE /\ k = 1
         /\ SubSeq(t.date, 1, 2) = SubSeq(line, 1, 2)
         /\ SubSeq(t.date, 4, 5) = SubSeq(line, 4, 5)

\* C19: output order is discovery order: within an invocation every step keeps
\* the transactions it found in place and unchanged, and the ones a scan step
\* adds come after them, are those of the current line and stand in the order
\* of its groups; lines are taken in input order, and the list returned is the
\* list so built.
C19_DiscoveryOrder ==
    /\ [][ (pc = "period" \/ pc = "scan" \/ pc = "validate") =>
             /\ Len(transactions') >= Len(transactions)
             /\ SubSeq(transactions', 1, Len(transactions)) = transactions ]_vars
    /\ [][ (pc = "scan" /\ i < Len(data)) =>
             /\ i' \in {i, i + 1}
             /\ \A k \in 1..(Len(transactions') - Len(transactions)) :
                    C19_FromLine(transactions'[Len(transactions) + k], data[i], k) ]_vars
    /\ [][ pc = "validate" => result' = transactions ]_vars
    /\ [] ( (pc = "done" /\ data = ScenarioOrder) =>
              /\ Len(result) = 4
              /\ result[1].description = "Check number: 101 [ref:REF123]"
              /\ result[2].description = "Check number: 102 [ref:REF124]"
              /\ result[3].description = "Refund"
              /\ result[4].description = "Payroll Deposit" )

\* the checks of one line and the deposits after them have been returned in
\* the order of the statement
C19_Witness ==
    /\ pc = "done"
    /\ data = ScenarioOrder
    /\ Len(result) = 4
    /\ result[1].date = "03.10.2024"
    /\ result[2].date = "03.11.2024"
    /\ result[3].date = "03.06.2024"
    /\ result[4].date = "03.05.2024"

\* the step appends a Deposit or Deduction entry whose description ends with
\* the text of the next line
C20_Continues ==
    /\ C6_AppendsEntry
    /\ transactions'[Len(transactions')].description =
           Join(Split(data[i]), " ", 3) \o " " \o data[i + 1]

\* the current line is the one the last transaction took as its continuation
C20_WasContinuation ==
    /\ pc = "scan" /\ 1 < i /\ i < Len(data)
    /\ Len(transactions) > 0
    /\ transactions[Len(transactions)].type \in {"DEPOSIT", "DEDUCTION"}
    /\ transactions[Len(transactions)].description =
           Join(Split(data[i - 1]), " ", 3) \o " " \o data[i]

\* C20: continuation is one line deep and consumes nothing: a description
\* holds the entry's own words and at most the one next line; the line taken
\* as continuation is the current line of the next step of the pass, and that
\* step adds no transaction and leaves the category as it is.
C20_ContinuationConsumesNothing ==
    /\ [][ C6_AppendsEntry =>
             transactions'[Len(transactions')].description
                 \in { Join(Split(data[i]), " ", 3),
                       Join(Split(data[i]), " ", 3) \o " " \o data[i + 1] } ]_vars
    /\ [][ C20_Continues => (pc' = "scan" /\ i' = i + 1 /\ i' < Len(data)) ]_vars
    /\ [][ C20_WasContinuation =>
             (transactions' = transactions /\ trans_type' = trans_type) ]_vars
====
